---- MODULE Spec2Model ----
(***************************************************************************)
(* Model of check_rust.py: a diagnostic runner that executes a fixed,      *)
(* ordered list of (command, description) pairs as child processes, prints *)
(* what each one produced, and prints a PASS/FAIL summary.                 *)
(*                                                                         *)
(* The script is a single thread.  Its control location is `pc`; the only  *)
(* point where it suspends is inside subprocess.run (pc = "wait"), where   *)
(* it waits for the child process it has just spawned.  What a child does  *)
(* (fail to launch, exit with some code and some output, produce output    *)
(* that cannot be decoded, never finish) is chosen by the environment.     *)
(***************************************************************************)
EXTENDS Integers, Sequences, FiniteSets, TLC

VARIABLES
    commands,    \* the list `commands` of main: <<[cmd, desc], ...>>
    pc,          \* control location of the script
    i,           \* position of the for loop of main in `commands` (1-based)
    results,     \* the list `results` of main: <<<<desc, success>>, ...>>
    output,      \* the lines the script has printed on its stdout
    children,    \* one record per child process spawned so far
    calls,       \* history: one record per finished call of run_command,
                 \* with the lines from..to of `output` it printed
    exitStatus   \* exit status of the script, -1 while it is running

vars == <<commands, pc, i, results, output, children, calls, exitStatus>>

----------------------------------------------------------------------------
(* Bounds of the model *)

\* longest command list other than the script's own five-entry list
MaxCmds == 2

----------------------------------------------------------------------------
(* Text helpers: Python's str.join, str * n and str(int) *)

RECURSIVE Join(_, _)
\* sep.join(parts)
Join(sep, parts) ==
    IF Len(parts) = 0 THEN ""
    ELSE IF Len(parts) = 1 THEN parts[1]
    ELSE parts[1] \o sep \o Join(sep, Tail(parts))

RECURSIVE Repeat(_, _)
\* s * n
Repeat(s, n) == IF n <= 0 THEN "" ELSE s \o Repeat(s, n - 1)

Digit(d) == CASE d = 0 -> "0" [] d = 1 -> "1" [] d = 2 -> "2" [] d = 3 -> "3"
              [] d = 4 -> "4" [] d = 5 -> "5" [] d = 6 -> "6" [] d = 7 -> "7"
              [] d = 8 -> "8" [] d = 9 -> "9"

RECURSIVE IntToStr(_)
\* the text an f-string produces for an int
IntToStr(n) ==
    IF n < 0 THEN "-" \o IntToStr(0 - n)
    ELSE IF n < 10 THEN Digit(n)
    ELSE IntToStr(n \div 10) \o Digit(n % 10)

\* print("-" * 50)
Separator == Repeat("-", 50)

\* print("=" * 40)
Rule == Repeat("=", 40)

\* cwd= argument of subprocess.run, also printed by main
TargetDir == "/home/niko/writemagic"

----------------------------------------------------------------------------
(* The command list *)

\* the literal list of main
ScriptCommands == <<
    [cmd |-> <<"rustup", "show">>, desc |-> "Check Rust toolchain"],
    [cmd |-> <<"cargo", "--version">>, desc |-> "Check Cargo version"],
    [cmd |-> <<"cargo", "check", "--workspace">>, desc |-> "Cargo check workspace"],
    [cmd |-> <<"cargo", "test", "-p", "writemagic-shared", "--lib">>,
     desc |-> "Test shared domain"],
    [cmd |-> <<"cargo", "test", "-p", "writemagic-ai", "--lib">>,
     desc |-> "Test AI domain"] >>

\* entries of the short command lists the loop of main is also run on
CommandPool == {
    [cmd |-> <<"true">>, desc |-> "A"],
    [cmd |-> <<"false">>, desc |-> "B"],
    [cmd |-> <<"no-such-binary-xyz">>, desc |-> "C"] }

CommandLists ==
    {ScriptCommands} \cup
    UNION {[1..n -> CommandPool] : n \in 0..MaxCmds}

----------------------------------------------------------------------------
(* What the environment can do to one subprocess.run call *)

\* exceptions Popen raises when the child cannot be started
LaunchErrors == {
    [type |-> "FileNotFoundError", msg |-> "[Errno 2] No such file or directory"],
    [type |-> "PermissionError", msg |-> "[Errno 13] Permission denied"] }

\* exception raised by text=True decoding of the captured bytes
DecodeError ==
    [type |-> "UnicodeDecodeError", msg |-> "'utf-8' codec can't decode byte 0xff"]

\* CompletedProcess values: returncode, stdout, stderr
CompletedProcesses == {
    [returncode |-> 0, stdout |-> "", stderr |-> ""],
    [returncode |-> 0, stdout |-> "ok", stderr |-> ""],
    [returncode |-> 0, stdout |-> "ok", stderr |-> "warning"],
    [returncode |-> 1, stdout |-> "", stderr |-> "error"],
    [returncode |-> 1, stdout |-> "ok", stderr |-> ""],
    [returncode |-> 101, stdout |-> "ok", stderr |-> "error"],
    [returncode |-> -9, stdout |-> "", stderr |-> ""] }

\* exit codes of a child whose captured output is not valid text
UndecodableExitCodes == {0, 1}

\* values os.getcwd() can return
Cwds == {TargetDir, "/tmp"}

----------------------------------------------------------------------------
(* run_command *)

\* lines 7-8
Preamble(cmd, description) ==
    << "Running: " \o description,
       "Command: " \o Join(" ", cmd) >>

\* line 17
Succeeded(returncode) == returncode = 0

\* lines 11-16: what is printed once subprocess.run has returned `result`
Report(result) ==
    << "Return code: " \o IntToStr(result.returncode) >>
    \o (IF result.stdout # "" THEN << "STDOUT:\n" \o result.stdout >> ELSE << >>)
    \o (IF result.stderr # "" THEN << "STDERR:\n" \o result.stderr >> ELSE << >>)
    \o << Separator >>

\* variant of Catches: `except ValueError`, which lets OSError through
CatchesValueErrorOnly(e) == e.type \in {"UnicodeDecodeError"}

\* line 18: `except Exception` catches every exception subprocess.run raises
Catches(e) == e.type \in {"FileNotFoundError", "PermissionError",
                          "UnicodeDecodeError", "TimeoutExpired"}

\* variant of ErrorReport: the separator of line 20 is missing
ErrorReportNoSeparator(e) ==
    << "Error running command: " \o e.msg >>

\* lines 19-20
ErrorReport(e) ==
    << "Error running command: " \o e.msg, Separator >>

\* variant of TimeoutSet: subprocess.run(..., timeout=...)
TimeoutSetGiven == TRUE

\* line 10: subprocess.run is called without timeout=
TimeoutSet == FALSE

\* exception subprocess.run raises when a timeout expires
TimeoutExpired == [type |-> "TimeoutExpired", msg |-> "timed out"]

\* lines 11-17: subprocess.run returned `result`
ReturnCompleted(result) ==
    [raised |-> FALSE, value |-> Succeeded(result.returncode),
     prints |-> Report(result)]

\* lines 18-21: subprocess.run raised e
ReturnRaised(e) ==
    IF Catches(e)
    THEN [raised |-> FALSE, value |-> FALSE, prints |-> ErrorReport(e)]
    ELSE [raised |-> TRUE, value |-> FALSE, prints |-> << >>]

----------------------------------------------------------------------------
(* main *)

\* variant of AppendResult: results.insert(0, ...)
AppendResultFront(rs, desc, success) == << <<desc, success>> >> \o rs

\* variant of AppendResult: only failures are recorded
AppendResultFailuresOnly(rs, desc, success) ==
    IF success THEN rs ELSE Append(rs, <<desc, success>>)

\* line 43
AppendResult(rs, desc, success) == Append(rs, <<desc, success>>)

\* variant of NextIndex: `break` after the first failed command
NextIndexBreakOnFailure(k, success, n) == IF success THEN k + 1 ELSE n + 1

\* line 41: the for loop goes on to the next entry whatever `success` was
NextIndex(k, success, n) == k + 1

\* variant of Status: the two markers are swapped
StatusSwapped(success) == IF success THEN "(U+2717) FAIL" ELSE "(U+2713) PASS"

\* line 48
Status(success) == IF success THEN "(U+2713) PASS" ELSE "(U+2717) FAIL"

RECURSIVE SummaryLines(_)
\* lines 47-49
SummaryLines(rs) ==
    IF Len(rs) = 0 THEN << >>
    ELSE << Status(rs[1][2]) \o ": " \o rs[1][1] >> \o SummaryLines(Tail(rs))

\* variant of ExitStatus: sys.exit(1) when some check failed
ExitStatusFromResults(rs) ==
    IF \E k \in DOMAIN rs : ~rs[k][2] THEN 1 ELSE 0

\* lines 51-52: main returns None and the interpreter exits normally
ExitStatus(rs) == 0

\* lines 24-30
Header(cwd) ==
    << "WriteMagic Rust Environment Check", Rule,
       "Current working directory: " \o cwd,
       "Target directory: " \o TargetDir,
       Separator >>

\* variant of PcAfterSpawn: Popen without waiting for the child
PcAfterSpawnNoWait == "loop"

\* control location of main once subprocess.run has spawned the child:
\* run() waits for the child (communicate) before it returns
PcAfterSpawn == "wait"

----------------------------------------------------------------------------
(* State machine *)

Init ==
    /\ commands \in CommandLists
    /\ pc = "start"
    /\ i = 1
    /\ results = << >>
    /\ output = << >>
    /\ children = << >>
    /\ calls = << >>
    /\ exitStatus = -1

\* lines 24-40
Start ==
    /\ pc = "start"
    /\ \E cwd \in Cwds : output' = output \o Header(cwd)
    /\ pc' = "loop"
    /\ UNCHANGED <<commands, i, results, children, calls, exitStatus>>

\* lines 17/21 and 42-43: run_command finishes with `ret`, main records it.
\* An exception leaving run_command is uncaught in main: traceback, status 1.
Finish(ret, launched, how, from) ==
    /\ calls' = Append(calls, [idx |-> i, launched |-> launched, how |-> how,
                               raised |-> ret.raised, value |-> ret.value,
                               from |-> from, to |-> Len(output')])
    /\ IF ret.raised
       THEN /\ pc' = "done"
            /\ exitStatus' = 1
            /\ UNCHANGED <<i, results>>
       ELSE /\ results' = AppendResult(results, commands[i].desc, ret.value)
            /\ i' = NextIndex(i, ret.value, Len(commands))
            /\ pc' = "loop"
            /\ UNCHANGED exitStatus

\* lines 41-42, 7-10, 18-21, 43: the child cannot be started
LaunchFails ==
    /\ pc = "loop"
    /\ i <= Len(commands)
    /\ \E e \in LaunchErrors :
         LET ret == ReturnRaised(e) IN
         /\ output' = output \o Preamble(commands[i].cmd, commands[i].desc)
                             \o ret.prints
         /\ Finish(ret, FALSE, [kind |-> "launch_error", error |-> e],
                   Len(output) + 1)
    /\ UNCHANGED <<commands, children>>

\* lines 41-42, 7-10: the child is started and subprocess.run waits for it
Spawn ==
    /\ pc = "loop"
    /\ i <= Len(commands)
    /\ output' = output \o Preamble(commands[i].cmd, commands[i].desc)
    /\ children' = Append(children, [idx |-> i, state |-> "running",
                                     nresults |-> Len(results),
                                     from |-> Len(output) + 1])
    /\ pc' = PcAfterSpawn
    /\ UNCHANGED <<commands, i, results, calls, exitStatus>>

\* the child subprocess.run is waiting for
Current == Len(children)

Waiting ==
    /\ pc = "wait"
    /\ Current > 0
    /\ children[Current].state = "running"

\* lines 10-17, 43: the child exits and its output is decoded
ChildCompletes ==
    /\ Waiting
    /\ \E result \in CompletedProcesses :
         LET ret == ReturnCompleted(result) IN
         /\ output' = output \o ret.prints
         /\ Finish(ret, TRUE, [kind |-> "completed", result |-> result],
                   children[Current].from)
    /\ children' = [children EXCEPT ![Current].state = "exited"]
    /\ UNCHANGED commands

\* lines 10, 18-21, 43: the child exits but its captured bytes are not text
ChildOutputUndecodable ==
    /\ Waiting
    /\ \E rc \in UndecodableExitCodes :
         LET ret == ReturnRaised(DecodeError) IN
         /\ output' = output \o ret.prints
         /\ Finish(ret, TRUE, [kind |-> "decode_error", returncode |-> rc,
                               error |-> DecodeError],
                   children[Current].from)
    /\ children' = [children EXCEPT ![Current].state = "exited"]
    /\ UNCHANGED commands

\* line 10: the child never exits.  Without timeout= subprocess.run never
\* returns; with one it would raise TimeoutExpired after killing the child.
ChildHangs ==
    /\ Waiting
    /\ IF TimeoutSet
       THEN LET ret == ReturnRaised(TimeoutExpired) IN
            /\ output' = output \o ret.prints
            /\ Finish(ret, TRUE, [kind |-> "timeout", error |-> TimeoutExpired],
                        children[Current].from)
            /\ children' = [children EXCEPT ![Current].state = "exited"]
       ELSE /\ children' = [children EXCEPT ![Current].state = "hung"]
            /\ UNCHANGED <<pc, i, results, output, calls, exitStatus>>
    /\ UNCHANGED commands

\* lines 45-49
PrintSummary ==
    /\ pc = "loop"
    /\ i > Len(commands)
    /\ output' = output \o << "\nSUMMARY:", Rule >> \o SummaryLines(results)
    /\ pc' = "exit"
    /\ UNCHANGED <<commands, i, results, children, calls, exitStatus>>

\* lines 51-52: main returns, the interpreter exits
Exit ==
    /\ pc = "exit"
    /\ exitStatus' = ExitStatus(results)
    /\ pc' = "done"
    /\ UNCHANGED <<commands, i, results, output, children, calls>>

Next ==
    \/ Start
    \/ LaunchFails
    \/ Spawn
    \/ ChildCompletes
    \/ ChildOutputUndecodable
    \/ ChildHangs
    \/ PrintSummary
    \/ Exit

Spec == Init /\ [][Next]_vars

\* The interpreter always runs the script's next statement; a child either
\* exits or is one that never will (ChildHangs).
LiveSpec == Spec /\ WF_vars(Next)

----------------------------------------------------------------------------
(* Properties *)

\* the child of call k (if any) has not exited
Unfinished == {c \in DOMAIN children : children[c].state # "exited"}

Hung == \E c \in DOMAIN children : children[c].state = "hung"

\* the lines of `output` printed by the k-th call of run_command
CallLines(k) == SubSeq(output, calls[k].from, calls[k].to)

\* main has left the for loop in the normal way
LoopEnded == pc = "exit" \/ (pc = "done" /\ exitStatus = 0)

SummaryStart == {k \in DOMAIN output : output[k] = "\nSUMMARY:"}

\* exit code of the child of call k, when the child ran to its end
ChildExitCode(k) ==
    IF calls[k].how.kind = "completed" THEN calls[k].how.result.returncode
    ELSE calls[k].how.returncode

ChildRan(k) == calls[k].how.kind \in {"completed", "decode_error"}

\* C1: every call of run_command returns true if and only if the child was
\* launched and its exit code is zero (and false for every non-zero code).
C1_TrueIffExitZero ==
    \A k \in DOMAIN calls :
        /\ ~calls[k].raised
        /\ calls[k].value <=>
             (calls[k].launched /\ ChildRan(k) /\ ChildExitCode(k) = 0)

\* C2: when the child cannot be launched, run_command raises nothing, prints
\* an error message, returns false, and main records the result and goes on.
C2_LaunchFailureSwallowed ==
    /\ exitStatus # 1
    /\ \A k \in DOMAIN calls :
         ~calls[k].launched =>
            /\ ~calls[k].raised
            /\ ~calls[k].value
            /\ \E n \in DOMAIN CallLines(k) :
                 CallLines(k)[n] = "Error running command: " \o calls[k].how.error.msg
            /\ Len(results) >= k
            /\ results[k] = <<commands[calls[k].idx].desc, FALSE>>
            /\ (k < Len(commands) =>
                   \/ Len(calls) > k
                   \/ pc = "wait" /\ children[Current].idx = k + 1
                   \/ pc = "loop" /\ i = k + 1)

C2_Witness ==
    /\ Len(calls) >= 2
    /\ ~calls[1].launched
    /\ calls[1].how.error.type = "PermissionError"
    /\ calls[2].launched

\* C3: run_command is called once per entry, in declaration order, whatever
\* the earlier calls returned: the k-th call is for entry k, and when the
\* loop has ended every entry has had its call.
C3_EveryCommandRunInOrder ==
    /\ \A k \in DOMAIN calls : calls[k].idx = k
    /\ Len(calls) <= Len(commands)
    /\ pc = "loop" => i = Len(calls) + 1
    /\ pc = "wait" => children[Current].idx = Len(calls) + 1 /\ i = Len(calls) + 1
    /\ pc \in {"exit", "done"} => Len(calls) = Len(commands)

C3_Witness ==
    /\ pc = "done"
    /\ Len(calls) = 5
    /\ ~calls[1].launched
    /\ ~calls[2].value /\ calls[2].launched
    /\ calls[5].value

\* C4: when the loop has ended, results has one entry per command, in order:
\* entry k is (description of command k, value run_command returned for it).
C4_ResultsMatchCommands ==
    pc \in {"exit", "done"} =>
        /\ Len(results) = Len(commands)
        /\ Len(calls) = Len(commands)
        /\ \A k \in DOMAIN results :
             results[k] = <<commands[k].desc, calls[k].value>>

C4_Witness ==
    /\ pc = "exit"
    /\ Len(commands) = 2
    /\ commands[1].desc = "A" /\ commands[2].desc = "B"
    /\ results = << <<"A", TRUE>>, <<"B", FALSE>> >>

\* C5 as stated: in every reachable state results is as long as the command
\* list, in declaration order.
C5_LengthAlwaysEqual ==
    /\ Len(results) = Len(commands)
    /\ \A k \in DOMAIN results : results[k][1] = commands[k].desc

\* C5 amended: in every reachable state results is as long as the number of
\* finished run_command calls (never more than the command list), entry k
\* carries the description of command k, and once the loop has ended the
\* length equals the length of the command list.
C5_ResultsFollowCommands ==
    /\ Len(results) = Len(calls)
    /\ Len(results) <= Len(commands)
    /\ pc \in {"loop", "wait"} => Len(results) = i - 1
    /\ \A k \in DOMAIN results : results[k][1] = commands[k].desc
    /\ pc \in {"exit", "done"} => Len(results) = Len(commands)

C5_Witness ==
    /\ pc = "wait"
    /\ Len(commands) = 5
    /\ Len(results) = 3
    /\ results[3][1] = "Cargo check workspace"

\* C6: the summary is printed only after every command has completed, and it
\* has one line per result, in command order: the PASS marker and the
\* description when the recorded success is true, the FAIL marker otherwise.
C6_SummaryAfterAllCommands ==
    /\ pc \in {"exit", "done"} => SummaryStart # {}
    /\ \A s \in SummaryStart :
         /\ Len(calls) = Len(commands)
         /\ Len(results) = Len(commands)
         /\ Unfinished = {}
         /\ \A k \in DOMAIN calls : calls[k].to < s
         /\ Len(output) = s + 1 + Len(results)
         /\ \A k \in DOMAIN results :
              output[s + 1 + k] =
                 (IF results[k][2] THEN "(U+2713) PASS: " ELSE "(U+2717) FAIL: ")
                 \o commands[k].desc

C6_Witness ==
    /\ pc = "done"
    /\ Len(commands) = 2
    /\ calls[1].value /\ ~calls[2].value
    /\ output[Len(output) - 1] = "(U+2713) PASS: A"
    /\ output[Len(output)] = "(U+2717) FAIL: B"

\* C7: whenever the script has ended its exit status is 0, whatever the
\* outcomes of the commands were.
C7_ExitStatusZero ==
    /\ exitStatus \in {-1, 0}
    /\ pc = "done" => exitStatus = 0

C7_Witness ==
    /\ pc = "done"
    /\ exitStatus = 0
    /\ Len(results) = 5
    /\ \A k \in DOMAIN results : ~results[k][2]
    /\ \E k \in DOMAIN calls : ~calls[k].launched
    /\ \E k \in DOMAIN calls : calls[k].launched

\* exit codes a child can report
ExitCodeRange == -255 .. 255

\* C8 as stated: every call prints the description, the command line, the
\* numeric exit code and a closing separator, whatever the outcome.
C8_ExitCodeAlwaysPrinted ==
    \A k \in DOMAIN calls :
        LET L == CallLines(k) IN
        /\ Len(L) >= 4
        /\ L[1] = "Running: " \o commands[calls[k].idx].desc
        /\ L[2] = "Command: " \o Join(" ", commands[calls[k].idx].cmd)
        /\ \E n \in ExitCodeRange : L[3] = "Return code: " \o IntToStr(n)
        /\ L[Len(L)] = Separator

\* lines expected between the command line and the separator of call k
ExpectedBody(k) ==
    IF calls[k].how.kind = "completed"
    THEN LET r == calls[k].how.result IN
         << "Return code: " \o IntToStr(r.returncode) >>
         \o (IF r.stdout = "" THEN << >> ELSE << "STDOUT:\n" \o r.stdout >>)
         \o (IF r.stderr = "" THEN << >> ELSE << "STDERR:\n" \o r.stderr >>)
    ELSE << "Error running command: " \o calls[k].how.error.msg >>

\* C8 amended: every call prints the description and the command line first
\* and the separator last.  In between it prints the exit code and each
\* non-empty captured stream when subprocess.run returned, and only an error
\* message (no exit code, no captured output) when subprocess.run raised.
C8_PrintsPerOutcome ==
    \A k \in DOMAIN calls :
        CallLines(k) =
            << "Running: " \o commands[calls[k].idx].desc,
               "Command: " \o Join(" ", commands[calls[k].idx].cmd) >>
            \o ExpectedBody(k) \o << Separator >>

C8_Witness ==
    /\ Len(calls) >= 3
    /\ calls[1].how.kind = "launch_error"
    /\ calls[2].how.kind = "completed"
    /\ calls[2].how.result.stdout # "" /\ calls[2].how.result.stderr # ""
    /\ calls[3].how.kind = "decode_error"

\* C9: at most one child is unfinished at any time, and a child for entry j
\* is spawned only when every earlier child has exited and the results of
\* all entries before j have been appended.
C9_OneChildAtATime ==
    /\ Cardinality(Unfinished) <= 1
    /\ Unfinished # {} => pc = "wait" /\ Unfinished = {Current}
    /\ \A c \in DOMAIN children :
         /\ children[c].nresults = children[c].idx - 1
         /\ \A b \in 1 .. (c - 1) :
              /\ children[b].state = "exited"
              /\ children[b].idx < children[c].idx

C9_Witness ==
    /\ Len(children) = 3
    /\ children[3].state = "running"
    /\ children[3].idx = 4
    /\ Len(results) = 3

NoTimeout == \A k \in DOMAIN calls : calls[k].how.kind # "timeout"

\* a hung child blocks the run for good
HungBlocks ==
    Hung => /\ Hung'
            /\ pc' = "wait"
            /\ UNCHANGED <<i, results, output, children, calls, exitStatus>>

\* C10: no call ends by a timeout; if no child hangs main eventually prints
\* the summary and ends; once a child hangs the script stays in its wait, no
\* later command is launched and nothing more (no summary) is printed.
C10_NoTimeoutNoCancel ==
    /\ []NoTimeout
    /\ [](Hung => pc = "wait" /\ SummaryStart = {} /\ children[Current].state = "hung")
    /\ [][HungBlocks]_vars
    /\ ([]~Hung) => <>(pc = "done" /\ SummaryStart # {})

C10_Witness ==
    /\ Hung
    /\ Len(commands) = 5
    /\ children[Current].idx = 2
    /\ Len(calls) = 1

====
